---- MODULE Spec2Model ----
(***************************************************************************)
(* github_repo_metrics_to_sqlite.py: one invocation of main() loads        *)
(* config.json, opens data/github_metrics.sqlite3, fetches the traffic     *)
(* series and the repository counters from the GitHub API, upserts them    *)
(* into two tables and prints the rollups.  The database file outlives the *)
(* process, so the model is a sequence of invocations over one database.   *)
(*                                                                         *)
(* Strings the code slices or compares (timestamps, dates) are tuples of   *)
(* one-character strings; every other string is an atom.                   *)
(***************************************************************************)
EXTENDS Integers, Sequences, FiniteSets, TLC

VARIABLES
    pc,             \* position of the process inside main()
    runs,           \* invocations started so far
    exit,           \* how the last process ended
    token, owner, repo,   \* main()'s locals read from config.json
    calls,          \* functions main() has called in this invocation, in order
    requests,       \* GETs issued by this invocation, in order
    traffic_rows,   \* main()'s local, {} while unbound: result of fetch_traffic_views
    repo_json,      \* fetch_repo_counts' local, {} while unbound: the counters payload
    snapshot,       \* main()'s local, {} while unbound: result of fetch_repo_counts
    tables,         \* TRUE once ensure_db created the two tables
    traffic,        \* committed rows of traffic_views_daily
    counts,         \* committed rows of repo_counts_daily
    conn_traffic,   \* traffic_views_daily as seen through conn (uncommitted included)
    report,         \* what print_rollups printed in this invocation
    written_traffic,  \* history: last record written per (owner, repo, date)
    written_counts,   \* history: last snapshot written per (owner, repo, date)
    before_traffic,   \* history: traffic when this invocation started
    before_counts,    \* history: counts when this invocation started
    db_before         \* history: tables when this invocation started

vars == <<pc, runs, exit, token, owner, repo, calls, requests, traffic_rows,
          repo_json, snapshot, tables, traffic, counts, conn_traffic, report, written_traffic,
          written_counts, before_traffic, before_counts, db_before>>

-----------------------------------------------------------------------------
(* Bounds *)

MaxRuns == 2     \* invocations of the script
MaxBatch == 2    \* entries in the "views" list of a traffic payload
MaxCount == 1    \* largest number the API reports

\* Python's None, which an f-string renders as "None"
Missing == "None"

\* "2024-03-01T09:00:00Z", "2024-03-02T00:00:00Z", "2024-04-01T00:00:00Z"
Timestamps ==
    { <<"2","0","2","4","-","0","3","-","0","1","T","0","9",":","0","0",":","0","0","Z">>,
      <<"2","0","2","4","-","0","3","-","0","2","T","0","0",":","0","0",":","0","0","Z">>,
      <<"2","0","2","4","-","0","4","-","0","1","T","0","0",":","0","0",":","0","0","Z">> }

Numbers == 0..MaxCount

-----------------------------------------------------------------------------
(* Strings *)

\* byte value order of the characters that occur in dates
Code(c) ==
    CASE c = "-" -> 45
      [] c = "0" -> 48 [] c = "1" -> 49 [] c = "2" -> 50 [] c = "3" -> 51
      [] c = "4" -> 52 [] c = "5" -> 53 [] c = "6" -> 54 [] c = "7" -> 55
      [] c = "8" -> 56 [] c = "9" -> 57
      [] OTHER -> 127

\* s[:n] in Python, substr(s, 1, n) in SQLite
Prefix(s, n) == SubSeq(s, 1, IF Len(s) < n THEN Len(s) ELSE n)

\* SQLite's BINARY collation on TEXT: bytewise, a proper prefix sorts first
TextLess(a, b) ==
    \E i \in 1..(Len(a) + 1) :
        /\ i <= Len(b)
        /\ \A j \in 1..(i - 1) : a[j] = b[j]
        /\ \/ i = Len(a) + 1
           \/ i <= Len(a) /\ Code(a[i]) < Code(b[i])

\* datetime.now(timezone.utc).strftime("%Y-%m-%d") / strftime("%Y-%m")
StrfDate(now) == Prefix(now, 10)
StrfMonth(now) == Prefix(now, 7)

\* Python truthiness of a str-or-None
Truthy(t) == t # Missing /\ t # ""

\* A JSON object is a function from the keys it has to their values.
\* d.get(key)
Get(d, key) == IF key \in DOMAIN d THEN d[key] ELSE Missing
\* int(d.get(key, 0))
GetInt(d, key) == IF key \in DOMAIN d THEN d[key] ELSE 0

\* all objects with keys among `required \cup optional`, values from `values`
Objects(required, optional, values) ==
    UNION { [required \cup opt -> values] : opt \in SUBSET optional }

-----------------------------------------------------------------------------
(* Inputs *)

\* config.json, when it exists: an object in which any key may be absent
ConfigObjects(repos) ==
    { c \in Objects({}, {"github_token", "owner", "repo"}, {"tok", "octo"} \cup repos) :
        /\ "github_token" \in DOMAIN c => c["github_token"] = "tok"
        /\ "owner" \in DOMAIN c => c["owner"] = "octo"
        /\ "repo" \in DOMAIN c => c["repo"] \in repos }
\* those that name a credential and a repository
Complete(configs) == { c \in configs : DOMAIN c = {"github_token", "owner", "repo"} }

\* elements of the traffic payload's "views" list
ViewEntries(timestamps, required, optional, numbers) ==
    { [timestamp |-> t] @@ o : t \in timestamps, o \in Objects(required, optional, numbers) }

RECURSIVE SeqsUpTo(_, _)
SeqsUpTo(S, n) ==
    IF n = 0 THEN { <<>> }
    ELSE LET shorter == SeqsUpTo(S, n - 1)
         IN  shorter \cup { Append(s, x) : s \in { t \in shorter : Len(t) = n - 1 }, x \in S }

\* payload of GET /repos/{owner}/{repo}/traffic/views ("views" may be absent)
TrafficPayloads(entries) ==
    { <<>> } \cup { [views |-> v] : v \in SeqsUpTo(entries, MaxBatch) }

\* payload of GET /repos/{owner}/{repo}
RepoFields == {"stargazers_count", "forks_count", "subscribers_count"}
RepoPayloads(numbers) == Objects({}, RepoFields, numbers)

-----------------------------------------------------------------------------
(* The functions of the script *)

\* INSERT ... ON CONFLICT(date) DO UPDATE SET <every other column>=excluded.<column>
UpsertRow(table, r) == { x \in table : x.date # r.date } \cup { r }

\* cur.executemany(INSERT ..., rows[0:n]) on the connection's view of the table
RECURSIVE Executemany(_, _, _)
Executemany(table, rows, n) ==
    IF n = 0 THEN table
    ELSE UpsertRow(Executemany(table, rows, n - 1), rows[n])

\* (variant: every statement is committed as it runs)
upsert_traffic_views_autocommit(committed, rows, n, commits) ==
    LET view == Executemany(committed, rows, n)
    IN  [conn |-> view, db |-> view]

\* upsert_traffic_views: n statements of the batch run before an error (n = Len(rows)
\* when all ran), then conn.commit() unless an error ended the process first.  The
\* INSERTs run inside the transaction sqlite3 opens implicitly; a process that ends
\* before commit() leaves the database file as it was.
upsert_traffic_views(committed, rows, n, commits) ==
    LET view == Executemany(committed, rows, n)
    IN  [conn |-> view, db |-> IF commits THEN view ELSE committed]

\* upsert_repo_counts: one INSERT ... ON CONFLICT(date) DO UPDATE, then commit
upsert_repo_counts(committed, snap, commits) ==
    IF commits THEN UpsertRow(committed, snap) ELSE committed

\* fetch_traffic_views, after gh_get returned payload
RECURSIVE TrafficRows(_)
TrafficRows(views) ==
    IF views = <<>> THEN <<>>
    ELSE <<[date |-> Prefix(Head(views)["timestamp"], 10),
            views |-> GetInt(Head(views), "count"),
            uniques |-> GetInt(Head(views), "uniques")]>> \o TrafficRows(Tail(views))

fetch_traffic_views(payload) ==
    TrafficRows(IF "views" \in DOMAIN payload THEN payload["views"] ELSE <<>>)

\* (variant: watchers read from the star count)
fetch_repo_counts_watchers_from_stars(payload, now) ==
    [date |-> StrfDate(now),
     stars |-> GetInt(payload, "stargazers_count"),
     forks |-> GetInt(payload, "forks_count"),
     watchers |-> GetInt(payload, "stargazers_count")]

\* fetch_repo_counts, after gh_get returned the payload and the clock read now
fetch_repo_counts(payload, now) ==
    [date |-> StrfDate(now),
     stars |-> GetInt(payload, "stargazers_count"),
     forks |-> GetInt(payload, "forks_count"),
     watchers |-> GetInt(payload, "subscribers_count")]

\* the request gh_get sends (Authorization only when the token is truthy) and how
\* urlopen answered it: "ok", "HTTPError" or "URLError"
gh_get(path, answer) == [path |-> path, authorization |-> Truthy(token), answer |-> answer]

RECURSIVE SumOf(_, _)
SumOf(rows, field) ==
    IF rows = {} THEN 0
    ELSE LET r == CHOOSE x \in rows : TRUE
         IN  r[field] + SumOf(rows \ {r}, field)

\* ascending by TextLess
RECURSIVE Sorted(_)
Sorted(S) ==
    IF S = {} THEN <<>>
    ELSE LET least == CHOOSE x \in S : \A y \in S \ {x} : TextLess(x, y)
         IN  <<least>> \o Sorted(S \ {least})

\* SELECT substr(date,1,7) AS ym, SUM(views), SUM(uniques) ... GROUP BY ym ORDER BY ym
monthly_rollup(table) ==
    LET months == Sorted({ Prefix(r.date, 7) : r \in table })
        group(ym) == { r \in table : Prefix(r.date, 7) = ym }
    IN  [i \in 1..Len(months) |->
            [ym |-> months[i],
             views |-> SumOf(group(months[i]), "views"),
             sum_daily_uniques |-> SumOf(group(months[i]), "uniques")]]

\* SELECT SUM(views), SUM(uniques) ... WHERE substr(date,1,7)=current_ym, printed
\* only "if m and any(m)"; SUM over no rows is NULL
month_to_date(table, current_ym) ==
    LET rows == { r \in table : Prefix(r.date, 7) = current_ym }
        v == SumOf(rows, "views")
        u == SumOf(rows, "uniques")
    IN  IF rows # {} /\ (v # 0 \/ u # 0)
        THEN { [ym |-> current_ym, views |-> v, sum_daily_uniques |-> u] }
        ELSE {}

\* SELECT date, stars, forks, watchers ... ORDER BY date DESC LIMIT 1
latest_counts(table) ==
    { r \in table : \A x \in table \ {r} : TextLess(x.date, r.date) }

print_rollups(traffic_table, counts_table, now) ==
    [monthly |-> monthly_rollup(traffic_table),
     mtd |-> month_to_date(traffic_table, StrfMonth(now)),
     latest |-> latest_counts(counts_table)]

\* history: the same write applied to a table keyed by (owner, repo, date)
Keyed(r) == [owner |-> owner, repo |-> repo] @@ r
UpsertKeyed(table, r) ==
    { x \in table : ~(x.owner = r.owner /\ x.repo = r.repo /\ x.date = r.date) } \cup { r }
RECURSIVE WriteKeyed(_, _)
WriteKeyed(table, rows) ==
    IF rows = <<>> THEN table
    ELSE WriteKeyed(UpsertKeyed(table, Keyed(Head(rows))), Tail(rows))

-----------------------------------------------------------------------------
(* main() *)

Init ==
    /\ pc = "idle"
    /\ runs = 0
    /\ exit = "none"
    /\ token = Missing /\ owner = Missing /\ repo = Missing
    /\ calls = <<>>
    /\ requests = <<>>
    /\ traffic_rows = {}
    /\ repo_json = {}
    /\ snapshot = {}
    /\ tables = FALSE
    /\ traffic = {}
    /\ counts = {}
    /\ conn_traffic = {}
    /\ report = {}
    /\ written_traffic = {}
    /\ written_counts = {}
    /\ before_traffic = {}
    /\ before_counts = {}
    /\ db_before = FALSE

store == <<tables, traffic, counts, conn_traffic, written_traffic, written_counts>>
locals == <<token, owner, repo, requests, traffic_rows, repo_json, snapshot, report>>
Call(f) == calls' = Append(calls, f)
history == <<before_traffic, before_counts, db_before>>

\* a new process: nothing of the previous one survives but the database file
Start ==
    /\ pc = "idle"
    /\ runs < MaxRuns
    /\ runs' = runs + 1
    /\ calls' = <<"load_config">>
    /\ requests' = <<>>
    /\ traffic_rows' = {}
    /\ repo_json' = {}
    /\ snapshot' = {}
    /\ report' = {}
    /\ conn_traffic' = traffic
    /\ before_traffic' = traffic
    /\ before_counts' = counts
    /\ db_before' = tables
    /\ UNCHANGED <<tables, traffic, counts, written_traffic, written_counts>>

\* config = load_config() with no config.json: FileNotFoundError
LoadConfigMissing ==
    /\ Start
    /\ pc' = "idle"
    /\ exit' = "FileNotFoundError"
    /\ token' = Missing /\ owner' = Missing /\ repo' = Missing

\* config = load_config(); token, owner, repo = config.get(...)
LoadConfig(configs) ==
    /\ Start
    /\ \E config \in configs :
        /\ token' = Get(config, "github_token")
        /\ owner' = Get(config, "owner")
        /\ repo' = Get(config, "repo")
    /\ pc' = "ensure_db"
    /\ exit' = "none"

\* the process ends with an uncaught exception
Raise(exception) ==
    /\ pc' = "idle"
    /\ exit' = exception

\* gh_get's except clauses: raise SystemExit(message)
SystemExit(answer) ==
    IF answer = "HTTPError" THEN "SystemExit: GitHub API error" ELSE "SystemExit: Network error"

\* conn = ensure_db()
EnsureDb ==
    /\ pc = "ensure_db"
    /\ Call("ensure_db")
    /\ tables' = TRUE
    /\ conn_traffic' = traffic
    /\ pc' = "fetch_traffic"
    /\ UNCHANGED <<runs, exit, locals, traffic, counts, written_traffic, written_counts, history>>

TrafficPath == <<"repos", owner, repo, "traffic", "views">>
RepoPath == <<"repos", owner, repo>>

\* (variant: an empty series ends the sync, the counters are not fetched)
AfterTrafficSkipsCounts(rows) == IF rows # <<>> THEN "upsert_traffic" ELSE "print_rollups"

\* "if traffic_rows: upsert_traffic_views(conn, traffic_rows)", then step 2
AfterTraffic(rows) == IF rows # <<>> THEN "upsert_traffic" ELSE "fetch_counts"

\* traffic_rows = fetch_traffic_views(owner, repo, token); if traffic_rows: ...
FetchTraffic(payloads) ==
    /\ pc = "fetch_traffic"
    /\ Call("fetch_traffic_views")
    /\ requests' = Append(requests, gh_get(TrafficPath, "ok"))
    /\ \E payload \in payloads :
        LET rows == fetch_traffic_views(payload)
        IN  /\ traffic_rows' = { rows }
            /\ pc' = AfterTraffic(rows)
    /\ UNCHANGED <<runs, exit, token, owner, repo, repo_json, snapshot, report, store, history>>

\* (variant: a failed traffic request is swallowed and the run goes on)
FetchTrafficFailsAndContinues ==
    /\ pc = "fetch_traffic"
    /\ Call("fetch_traffic_views")
    /\ \E answer \in {"HTTPError", "URLError"} :
        requests' = Append(requests, gh_get(TrafficPath, answer))
    /\ traffic_rows' = { <<>> }
    /\ pc' = "fetch_counts"
    /\ UNCHANGED <<runs, exit, token, owner, repo, repo_json, snapshot, report, store, history>>

\* gh_get inside fetch_traffic_views raises SystemExit on HTTPError or URLError
FetchTrafficFails ==
    /\ pc = "fetch_traffic"
    /\ Call("fetch_traffic_views")
    /\ \E answer \in {"HTTPError", "URLError"} :
        /\ requests' = Append(requests, gh_get(TrafficPath, answer))
        /\ Raise(SystemExit(answer))
    /\ UNCHANGED <<runs, token, owner, repo, traffic_rows, repo_json, snapshot, report, store,
                   history>>

\* upsert_traffic_views(conn, traffic_rows)
UpsertTraffic ==
    /\ pc = "upsert_traffic"
    /\ Call("upsert_traffic_views")
    /\ \E rows \in traffic_rows :
        LET done == upsert_traffic_views(traffic, rows, Len(rows), TRUE)
        IN  /\ conn_traffic' = done.conn
            /\ traffic' = done.db
            /\ written_traffic' = WriteKeyed(written_traffic, rows)
    /\ pc' = "fetch_counts"
    /\ UNCHANGED <<runs, exit, locals, tables, counts, written_counts, history>>

\* executemany raises after n statements, or commit() raises: sqlite3.Error
UpsertTrafficFails ==
    /\ pc = "upsert_traffic"
    /\ Call("upsert_traffic_views")
    /\ \E rows \in traffic_rows, n \in 0..MaxBatch :
        /\ n <= Len(rows)
        /\ LET done == upsert_traffic_views(traffic, rows, n, FALSE)
           IN  /\ conn_traffic' = done.conn
               /\ traffic' = done.db
    /\ Raise("sqlite3.Error")
    /\ UNCHANGED <<runs, locals, tables, counts, written_traffic, written_counts, history>>

\* snapshot = fetch_repo_counts(owner, repo, token)
FetchCounts(payloads, clock) ==
    /\ pc = "fetch_counts"
    /\ Call("fetch_repo_counts")
    /\ requests' = Append(requests, gh_get(RepoPath, "ok"))
    /\ \E payload \in payloads, now \in clock :
        /\ repo_json' = { payload }
        /\ snapshot' = { fetch_repo_counts(payload, now) }
    /\ pc' = "upsert_counts"
    /\ UNCHANGED <<runs, exit, token, owner, repo, traffic_rows, report, store, history>>

FetchCountsFails ==
    /\ pc = "fetch_counts"
    /\ Call("fetch_repo_counts")
    /\ \E answer \in {"HTTPError", "URLError"} :
        /\ requests' = Append(requests, gh_get(RepoPath, answer))
        /\ Raise(SystemExit(answer))
    /\ UNCHANGED <<runs, token, owner, repo, traffic_rows, repo_json, snapshot, report, store,
                   history>>

\* upsert_repo_counts(conn, snapshot)
UpsertCounts ==
    /\ pc = "upsert_counts"
    /\ Call("upsert_repo_counts")
    /\ \E snap \in snapshot :
        /\ counts' = upsert_repo_counts(counts, snap, TRUE)
        /\ written_counts' = UpsertKeyed(written_counts, Keyed(snap))
    /\ pc' = "print_rollups"
    /\ UNCHANGED <<runs, exit, locals, tables, traffic, conn_traffic, written_traffic, history>>

UpsertCountsFails ==
    /\ pc = "upsert_counts"
    /\ Call("upsert_repo_counts")
    /\ \E snap \in snapshot : counts' = upsert_repo_counts(counts, snap, FALSE)
    /\ Raise("sqlite3.Error")
    /\ UNCHANGED <<runs, locals, tables, traffic, conn_traffic, written_traffic,
                   written_counts, history>>

\* print_rollups(conn), then main returns
PrintRollups(clock) ==
    /\ pc = "print_rollups"
    /\ Call("print_rollups")
    /\ \E now \in clock : report' = { print_rollups(traffic, counts, now) }
    /\ pc' = "idle"
    /\ exit' = "ok"
    /\ UNCHANGED <<runs, token, owner, repo, requests, traffic_rows, repo_json, snapshot,
                   store, history>>

-----------------------------------------------------------------------------
(* Specifications: the same program under different bounded environments *)

March == { t \in Timestamps : Prefix(t, 7) = <<"2","0","2","4","-","0","3">> }
FirstOfMonth == { t \in Timestamps : SubSeq(t, 9, 10) = <<"0","1">> }
FullRepo == [RepoFields -> {MaxCount}]

\* Spec: every config.json with one repository name; first-of-month traffic
\* entries and counters that all report MaxCount
Next ==
    \/ LoadConfigMissing
    \/ LoadConfig(ConfigObjects({"alpha"}))
    \/ EnsureDb
    \/ FetchTraffic(TrafficPayloads(ViewEntries(FirstOfMonth, {"count", "uniques"}, {}, {MaxCount})))
    \/ FetchTrafficFails
    \/ UpsertTraffic
    \/ UpsertTrafficFails
    \/ FetchCounts(FullRepo, FirstOfMonth)
    \/ FetchCountsFails
    \/ UpsertCounts
    \/ UpsertCountsFails
    \/ PrintRollups(FirstOfMonth)

Spec == Init /\ [][Next]_vars

\* SpecStore: two complete configurations (two repositories); March traffic
\* entries whose uniques may be absent; one counters payload
NextStore ==
    \/ LoadConfigMissing
    \/ LoadConfig(Complete(ConfigObjects({"alpha", "beta"})))
    \/ EnsureDb
    \/ FetchTraffic(TrafficPayloads(ViewEntries(March, {"count"}, {"uniques"}, {MaxCount})))
    \/ FetchTrafficFails
    \/ UpsertTraffic
    \/ UpsertTrafficFails
    \/ FetchCounts(FullRepo, FirstOfMonth)
    \/ FetchCountsFails
    \/ UpsertCounts
    \/ UpsertCountsFails
    \/ PrintRollups(March)

SpecStore == Init /\ [][NextStore]_vars

\* SpecCounts: one complete configuration; every counters payload over Numbers
\* with any fields absent, read on one day; one kind of traffic entry
NextCounts ==
    \/ LoadConfigMissing
    \/ LoadConfig(Complete(ConfigObjects({"alpha"})))
    \/ EnsureDb
    \/ FetchTraffic(TrafficPayloads(ViewEntries(March \cap FirstOfMonth, {"count", "uniques"}, {}, {MaxCount})))
    \/ FetchTrafficFails
    \/ UpsertTraffic
    \/ UpsertTrafficFails
    \/ FetchCounts(RepoPayloads(Numbers), March \cap FirstOfMonth)
    \/ FetchCountsFails
    \/ UpsertCounts
    \/ UpsertCountsFails
    \/ PrintRollups(March)

SpecCounts == Init /\ [][NextCounts]_vars

-----------------------------------------------------------------------------
(* Vocabulary of the properties *)

Called(f) == \E i \in DOMAIN calls : calls[i] = f
LastCall == IF calls = <<>> THEN "" ELSE calls[Len(calls)]
Ended == pc = "idle" /\ exit # "none"
TrafficSteps == {"fetch_traffic_views", "upsert_traffic_views"}
CountsSteps == {"fetch_repo_counts", "upsert_repo_counts"}
\* the i-th GET of this invocation got no successful answer
Failed(i) == requests[i].answer # "ok"
\* config.json was read in this invocation
ConfigLoaded == runs > 0 /\ exit # "FileNotFoundError"

-----------------------------------------------------------------------------
(* C5: empty traffic is a no-op on the traffic table, counters still synced *)

\* C5: once the traffic fetch of an invocation has returned an empty series,
\* upsert_traffic_views is never called in it and traffic_views_daily holds exactly
\* the rows it held when the invocation started; the invocation goes on to request
\* the counters (it cannot end before doing so), and a snapshot it got is in
\* repo_counts_daily from the counters upsert on.
EmptyTrafficNoOp ==
    traffic_rows = { <<>> } =>
        /\ ~Called("upsert_traffic_views")
        /\ traffic = before_traffic
        /\ pc \in {"fetch_counts", "upsert_counts", "print_rollups", "idle"}
        /\ pc # "fetch_counts" => Called("fetch_repo_counts")
        /\ (pc = "print_rollups" \/ exit = "ok") =>
              /\ LastCall \in {"upsert_repo_counts", "print_rollups"}
              /\ snapshot # {}
              /\ snapshot \subseteq counts

\* an invocation that found rows stored, fetched no traffic, and still wrote a new
\* counters snapshot
EmptyTrafficNoOpWitness ==
    /\ exit = "ok"
    /\ traffic_rows = { <<>> }
    /\ before_traffic # {}
    /\ traffic = before_traffic
    /\ snapshot \subseteq counts
    /\ counts # before_counts

-----------------------------------------------------------------------------
(* C6: configuration errors abort before any side effect *)

\* C6 (as claimed): in an invocation whose config.json is missing, or names no
\* credential, or names no repository at all, no request is sent, ensure_db is
\* not called, nothing in the database changes, and the process does not end
\* normally.
ConfigFailFast ==
    (runs > 0 /\ (exit = "FileNotFoundError" \/ token = Missing
                    \/ (owner = Missing /\ repo = Missing))) =>
        /\ requests = <<>>
        /\ ~Called("ensure_db")
        /\ tables = db_before
        /\ traffic = before_traffic
        /\ counts = before_counts
        /\ exit # "ok"

-----------------------------------------------------------------------------
(* C7: an entity without namespace or name is skipped *)

\* C7 (as claimed): in an invocation whose configured repository lacks its owner
\* or its name, no request is sent for it and no row is written for it.
InvalidEntitySkipped ==
    (ConfigLoaded /\ (owner = Missing \/ repo = Missing)) =>
        /\ requests = <<>>
        /\ ~Called("upsert_traffic_views")
        /\ ~Called("upsert_repo_counts")
        /\ \A w \in written_traffic \cup written_counts : w.owner # Missing /\ w.repo # Missing

-----------------------------------------------------------------------------
(* C9: a failed fetch ends the run; traffic comes before counters *)

\* C9: every traffic step of an invocation precedes every counters step; each
\* fetch sends exactly one request; a request that failed is the last thing the
\* invocation did: the process has ended with SystemExit, printed no report, and
\* the tables hold what they held when the request was sent (both as at the start
\* when it was the traffic request).
FetchFailureFatal ==
    /\ \A i, j \in DOMAIN calls :
          (calls[i] \in TrafficSteps /\ calls[j] \in CountsSteps) => i < j
    /\ \A i, j \in DOMAIN calls : calls[i] = calls[j] => i = j
    /\ Len(requests) = Cardinality({ i \in DOMAIN calls : calls[i] \in
                                        {"fetch_traffic_views", "fetch_repo_counts"} })
    /\ \A i \in DOMAIN requests : Failed(i) =>
          /\ i = Len(requests)
          /\ pc = "idle"
          /\ exit = SystemExit(requests[i].answer)
          /\ report = {}
          /\ LastCall = (IF i = 1 THEN "fetch_traffic_views" ELSE "fetch_repo_counts")
          /\ counts = before_counts
          /\ i = 1 => traffic = before_traffic
          /\ i = 2 => \E rows \in traffic_rows :
                         traffic = Executemany(before_traffic, rows, Len(rows))

\* the traffic request failed in an invocation that found rows in both tables
FetchFailureFatalWitness ==
    /\ Len(requests) = 1 /\ Failed(1)
    /\ Ended
    /\ before_traffic # {} /\ before_counts # {}
    /\ traffic = before_traffic /\ counts = before_counts

-----------------------------------------------------------------------------
(* C10: the traffic batch is written atomically *)

\* the last record of the batch for each date, i.e. the batch as one upsert
BatchResult(rows) ==
    { rows[i] : i \in { k \in DOMAIN rows : \A j \in DOMAIN rows : j > k => rows[j].date # rows[k].date } }
FailedInTrafficUpsert == exit = "sqlite3.Error" /\ LastCall = "upsert_traffic_views"

\* C10: from the call of upsert_traffic_views on, traffic_views_daily is either
\* exactly what it was when the invocation started (an INSERT or the commit
\* failed) or, when the call returned, holds for every date of the batch the
\* batch's (last) record for it, with every other row as before.
AtomicBatchWrite ==
    Called("upsert_traffic_views") =>
        \E rows \in traffic_rows :
            IF FailedInTrafficUpsert
            THEN traffic = before_traffic
            ELSE traffic = { r \in before_traffic : \A i \in DOMAIN rows : rows[i].date # r.date }
                              \cup BatchResult(rows)

\* a batch of two dates failed after its first INSERT had changed a stored row:
\* the connection saw the change, the database keeps the old row
AtomicBatchWriteWitness ==
    /\ FailedInTrafficUpsert
    /\ \E rows \in traffic_rows : Len(rows) = 2 /\ rows[1].date # rows[2].date
    /\ before_traffic # {}
    /\ conn_traffic # traffic
    /\ Cardinality(conn_traffic) = Cardinality(traffic)
    /\ traffic = before_traffic

-----------------------------------------------------------------------------
(* C1: one row per (entity, date), last write wins *)

Stored(w) == [date |-> w.date, views |-> w.views, uniques |-> w.uniques]
StoredCounts(w) == [date |-> w.date, stars |-> w.stars, forks |-> w.forks, watchers |-> w.watchers]

\* C1 (as claimed): each table holds exactly one row per (owner, repo, date) ever
\* written, carrying the values of the most recent write for that key.
LastWriteWinsPerEntityDate ==
    /\ Cardinality(traffic) = Cardinality(written_traffic)
    /\ \A w \in written_traffic : Stored(w) \in traffic
    /\ Cardinality(counts) = Cardinality(written_counts)
    /\ \A w \in written_counts : StoredCounts(w) \in counts

-----------------------------------------------------------------------------
(* C2: upserting traffic for one entity leaves the other entities' rows alone *)

IsolationStep ==
    pc = "upsert_traffic" =>
        \A w \in written_traffic :
            (w.owner # owner \/ w.repo # repo) =>
                /\ Stored(w) \in traffic => Stored(w) \in traffic'
                /\ w \in written_traffic'

\* C2 (as claimed): a traffic upsert for the configured repository never modifies
\* or deletes a stored row that another repository wrote, nor creates one for it.
MultiEntityIsolation == [][IsolationStep]_vars

-----------------------------------------------------------------------------
(* C3: the monthly rollup has one tuple per (entity, month) *)

EntityMonths == { <<w.owner, w.repo, Prefix(w.date, 7)>> : w \in written_traffic }
RowsOf(g) == { w \in written_traffic : <<w.owner, w.repo, Prefix(w.date, 7)>> = g }

\* C3 (as claimed): the rollup print_rollups computed has exactly one tuple per
\* (owner, repo, YYYY-MM) with a traffic row, carrying the sums of views and of
\* uniques over that repository's rows of that month.
RollupPerEntityMonth ==
    \A rep \in report :
        /\ Len(rep.monthly) = Cardinality(EntityMonths)
        /\ \A g \in EntityMonths : \E i \in DOMAIN rep.monthly :
              /\ rep.monthly[i].ym = g[3]
              /\ rep.monthly[i].views = SumOf(RowsOf(g), "views")
              /\ rep.monthly[i].sum_daily_uniques = SumOf(RowsOf(g), "uniques")

-----------------------------------------------------------------------------
(* C4: the latest counts have one row per entity *)

CountedEntities == { <<w.owner, w.repo>> : w \in written_counts }

\* C4 (as claimed): the latest counts print_rollups computed hold exactly one
\* row per (owner, repo) with a snapshot, that repository's snapshot of
\* greatest date.
LatestPerEntity ==
    \A rep \in report :
        /\ Cardinality(rep.latest) = Cardinality(CountedEntities)
        /\ \A w \in written_counts :
              (\A x \in written_counts :
                  (x.owner = w.owner /\ x.repo = w.repo /\ x # w) => TextLess(x.date, w.date))
              => StoredCounts(w) \in rep.latest

-----------------------------------------------------------------------------
(* C8: absent counter fields read as 0 *)

\* C8: whenever the counters request was answered, a snapshot was built, in
\* which stars, forks and watchers are the payload's stargazers_count,
\* forks_count and subscribers_count where present and 0 where absent.
MissingFieldTolerance ==
    \A p \in repo_json :
        /\ snapshot # {}
        /\ exit \in {"none", "ok", "sqlite3.Error"}
        /\ \A snap \in snapshot :
              /\ snap.stars = (IF "stargazers_count" \in DOMAIN p THEN p["stargazers_count"] ELSE 0)
              /\ snap.forks = (IF "forks_count" \in DOMAIN p THEN p["forks_count"] ELSE 0)
              /\ snap.watchers = (IF "subscribers_count" \in DOMAIN p THEN p["subscribers_count"] ELSE 0)

\* a payload without forks_count whose star and subscriber counts differ
MissingFieldToleranceWitness ==
    \E p \in repo_json, snap \in snapshot :
        /\ DOMAIN p = {"stargazers_count", "subscribers_count"}
        /\ p["stargazers_count"] # p["subscribers_count"]
        /\ snap.forks = 0
        /\ snap.watchers = p["subscribers_count"]
        /\ snap.stars = p["stargazers_count"]

====
